---- MODULE Spec2Model ----
(***************************************************************************)
(* The receipt ingestion pipeline of n8n-receipt-processor: the handler of *)
(* POST /receipts/ingest and the Gemini client it calls, as a state        *)
(* machine.  Each worker is one goroutine running                          *)
(* the handler for one request; the workers share the uploads directory    *)
(* and the two tables of the relational store.  A handler step is one      *)
(* external call (file system, store, OCR engine, Gemini) together with    *)
(* the local code that follows it up to the next external call.            *)
(*                                                                         *)
(* Numbers: amount and confidence are integers in units of 0.00001 (45.67   *)
(* is 4567000, 0.9 is 90000), one decimal place below the finer of the two *)
(* DECIMAL columns.  Texts returned by Gemini are sequences of characters; a *)
(* complete JSON document is one element of the sequence (see Decode).     *)
(***************************************************************************)
EXTENDS Integers, Sequences, FiniteSets, TLC

\* Seconds the clock advances over a run (caps the clock).
MaxClock == 2

\* Requests received over a run (caps the request counter).
MaxRequests == 2

\* The goroutines that run the handler at the same time.  They are
\* interchangeable: a request is taken by w2 only while w1 is busy.
Workers == {"w1", "w2"}

VARIABLES
    req,            \* per worker: the handler's position and local variables
    files,          \* ./uploads: stored file name -> uuid of the request whose bytes it holds
    receipts,       \* table receipts: row id (AUTO_INCREMENT) is the index
    transactions,   \* table transactions
    started,        \* requests received so far; the source of fresh uuids
    env,            \* the environment variables of the process
    now,            \* the wall clock, in seconds
    ocrReq          \* per worker: the position and locals of the handler of POST /ocr

vars == <<req, files, receipts, transactions, started, env, now, ocrReq>>

----------------------------------------------------------------------------
\* Inputs

\* Content-Type values of the uploaded part ("" is an absent header).
ContentTypes ==
    {"", "image/jpeg", "application/pdf", "text/plain", "image/tiff"}

\* Texts the OCR engine returns on success.
OcrTexts == {"", "WALMART\n01/15/2024\n$45.67"}

\* The backquote character.
BQ == "bq"

Fence == <<BQ, BQ, BQ>>
FenceJson == Fence \o <<"j", "s", "o", "n">>

\* Texts Gemini returns on success.
GeminiTexts ==
    { <<>>,
      <<"{A}">>,
      FenceJson \o <<"\n", "{A}", "\n">> \o Fence,
      <<"S", "o", "r", "r", "y">> }

----------------------------------------------------------------------------
\* strings.TrimSpace, strings.TrimPrefix, strings.TrimSuffix

IsSpace(c) == c \in {" ", "\n", "\t", "\r"}

RECURSIVE TrimLeft(_)
TrimLeft(s) ==
    IF s # <<>> /\ IsSpace(Head(s)) THEN TrimLeft(Tail(s)) ELSE s

RECURSIVE TrimRight(_)
TrimRight(s) ==
    IF s # <<>> /\ IsSpace(s[Len(s)]) THEN TrimRight(SubSeq(s, 1, Len(s) - 1)) ELSE s

TrimSpace(s) == TrimRight(TrimLeft(s))

HasPrefix(s, p) == Len(s) >= Len(p) /\ SubSeq(s, 1, Len(p)) = p

HasSuffix(s, p) == Len(s) >= Len(p) /\ SubSeq(s, Len(s) - Len(p) + 1, Len(s)) = p

TrimPrefix(s, p) == IF HasPrefix(s, p) THEN SubSeq(s, Len(p) + 1, Len(s)) ELSE s

TrimSuffix(s, p) == IF HasSuffix(s, p) THEN SubSeq(s, 1, Len(s) - Len(p)) ELSE s

\* CleanResponse with the trailing fence left in place.
CleanResponseKeepsSuffix(text) ==
    TrimSpace(TrimPrefix(TrimPrefix(TrimSpace(text), FenceJson), Fence))

\* The cleaning of the answer of Gemini before it is parsed.
CleanResponse(text) ==
    TrimSpace(TrimSuffix(TrimPrefix(TrimPrefix(TrimSpace(text), FenceJson), Fence), Fence))

----------------------------------------------------------------------------
\* encoding/json into GeminiParsedData

ZeroData ==
    [Date |-> "", MerchantRaw |-> "", MerchantClean |-> "", Category |-> "",
     Amount |-> 0, Currency |-> "", Confidence |-> 0]

\* The JSON documents that decode into GeminiParsedData, with their value.
\* "{A}" is the object of the prompt's example, "{Z}" an object of nulls and zeros.
\* "{N}" has a negative amount and confidence, "{S}" positive ones below the
\* scale of their columns, "{F}" an amount with three decimals, "{D}" a date
\* written month first, "{H}" a confidence of 1.5.
JsonDocs == {"{A}", "{Z}", "{N}", "{S}", "{F}", "{D}", "{H}"}

Decode(doc) ==
    LET A == [Date |-> "2024-01-15", MerchantRaw |-> "WALMART", MerchantClean |-> "Walmart",
              Category |-> "groceries", Amount |-> 4567000, Currency |-> "USD",
              Confidence |-> 90000]
    IN
    CASE doc = "{A}" -> A
      [] doc = "{N}" -> [A EXCEPT !.Amount = -500000, !.Confidence = -50000]
      [] doc = "{S}" -> [A EXCEPT !.Amount = 400, !.Confidence = 4]
      [] doc = "{F}" -> [A EXCEPT !.Amount = 4567800, !.Confidence = 95000]
      [] doc = "{D}" -> [A EXCEPT !.Date = "01/15/2024"]
      [] doc = "{H}" -> [A EXCEPT !.Confidence = 150000]
      [] OTHER -> ZeroData

\* json.Unmarshal([]byte(cleanedText), &data): the document, with white space
\* around it allowed, and nothing else.
Unmarshal(text) ==
    LET t == TrimSpace(text) IN
    IF Len(t) = 1 /\ t[1] \in JsonDocs
    THEN [ok |-> TRUE, data |-> Decode(t[1])]
    ELSE [ok |-> FALSE, data |-> ZeroData]

----------------------------------------------------------------------------
\* The handler's constants and local computations

allowedTypes ==
    {"image/jpeg", "image/jpg", "image/png", "image/gif", "image/webp",
     "application/pdf"}

\* The validation's condition for answering 400.
InvalidType(contentType) == contentType # "" /\ contentType \notin allowedTypes

\* isImage without the test for PDF.
isImageAny(contentType) == contentType # ""

isImage(contentType) == contentType # "application/pdf" /\ contentType # ""

\* The stored name, uuid_timestamp.ext.  The uuid is what makes it unique: the
\* time stamp (to the second) and the extension of the client's name are left
\* out of the name.
UniqueFilename(receiptID) == <<"receipt", receiptID>>

\* sql.NullString{String: s, Valid: s != ""}, as the column's value: <<>> is NULL.
NullString(s) == IF s # "" THEN <<s>> ELSE <<>>

\* sql.NullFloat64{Float64: x, Valid: x > 0}
NullFloat64(x) == IF x > 0 THEN <<x>> ELSE <<>>

\* The dates time.Parse("2006-01-02", ...) accepts.
ValidDates == {"2024-01-15"}

\* transactionDate with the date bound as the text Gemini returned.
transactionDateUnparsed(date) == IF date # "" THEN <<date>> ELSE <<>>

transactionDate(date) == IF date # "" /\ date \in ValidDates THEN <<date>> ELSE <<>>

\* A number rounded to a multiple of quantum, halves away from zero.
Round(x, quantum) ==
    IF x >= 0 THEN ((x + quantum \div 2) \div quantum) * quantum
    ELSE 0 - (((0 - x) + quantum \div 2) \div quantum) * quantum

\* What a DECIMAL column keeps of a bound sql.NullFloat64: NULL, or the number
\* rounded to the scale of the column; quantum is the column's last decimal
\* place, 1000 for amount DECIMAL(10, 2) and 10 for confidence DECIMAL(5, 4).
Decimal(v, quantum) == IF v = <<>> THEN <<>> ELSE <<Round(v[1], quantum)>>

\* TransactionRow with the id of the newest receipt of the table in place of
\* the id the request got from its own INSERT.
TransactionRowOfLatest(receiptDBID, data) ==
    [receipt_id |-> Len(receipts),
     date |-> transactionDate(data.Date),
     merchant_raw |-> NullString(data.MerchantRaw),
     merchant_clean |-> NullString(data.MerchantClean),
     category |-> NullString(data.Category),
     amount |-> Decimal(NullFloat64(data.Amount), 1000),
     currency |-> NullString(data.Currency),
     confidence |-> Decimal(NullFloat64(data.Confidence), 10)]

\* The row the handler inserts into transactions.
TransactionRow(receiptDBID, data) ==
    [receipt_id |-> receiptDBID,
     date |-> transactionDate(data.Date),
     merchant_raw |-> NullString(data.MerchantRaw),
     merchant_clean |-> NullString(data.MerchantClean),
     category |-> NullString(data.Category),
     amount |-> Decimal(NullFloat64(data.Amount), 1000),
     currency |-> NullString(data.Currency),
     confidence |-> Decimal(NullFloat64(data.Confidence), 10)]

\* The "status" field of the 201 response.
ResponseStatus(r) == "needs_review"

----------------------------------------------------------------------------
\* A request's local state

NoResponse == [code |-> 0, error |-> "", body |-> <<>>]

IdleReq ==
    [pc |-> "idle",
     hasFile |-> FALSE,
     contentType |-> "",
     receiptID |-> 0,
     uniqueFilename |-> <<>>,
     receiptDBID |-> 0,
     ocrStatus |-> "",
     ocrText |-> "",
     ocrError |-> <<>>,
     geminiStatus |-> "",
     geminiAnalysis |-> <<>>,
     geminiError |-> <<>>,
     geminiModel |-> "",
     parsedData |-> <<>>,
     calls |-> <<>>,
     response |-> NoResponse]

\* The external calls of the handler, as logged in calls.
Ops ==
    {"SaveFile", "Stat", "InsertReceipt", "LastInsertId", "ReadFile",
     "SetImageFromBytes", "Text", "NewGeminiClient", "AnalyzeReceiptTextWithPrompt",
     "InsertTransaction", "UpdateReceipt"}

\* The handler of POST /ocr before a request: filename is the name the
\* client gave its file, bytes the content it uploaded (0 before the upload),
\* read the content the OCR engine loaded (<<>> when none).
IdleOcr ==
    [pc |-> "idle", filename |-> <<>>, bytes |-> 0, read |-> <<>>,
     response |-> NoResponse]

\* The log of a call: whether it succeeded and, in ret, what it returned
\* (<<>> when nothing is kept of it).
Call(r, op, ok, ret) == [r EXCEPT !.calls = Append(@, [op |-> op, ok |-> ok, ret |-> ret])]

\* fmt.Sprintf of a format with one verb: the format and the argument, in order.
\* A string variable of the handler that holds such a message is a sequence of
\* parts, <<>> the empty string.
Sprintf(format, arg) == <<format, arg>>

\* return c.Status(code).JSON(fiber.Map{"error": msg})
Fail(r, code, msg) ==
    [r EXCEPT !.pc = "done", !.response = [code |-> code, error |-> msg, body |-> <<>>]]

\* The process environment, read by os.Getenv.
ApiKeys == {"", "key"}
ModelNames == {"", "gemini-1.5-pro"}

Init ==
    /\ req = [w \in Workers |-> IdleReq]
    /\ files = <<>>
    /\ receipts = <<>>
    /\ transactions = <<>>
    /\ started = 0
    /\ env \in [GEMINI_API_KEY : ApiKeys, GEMINI_MODEL : ModelNames]
    /\ now = 0
    /\ ocrReq = [w \in Workers |-> IdleOcr]

----------------------------------------------------------------------------
\* POST /receipts/ingest

\* Receive with the file saved before its content type is validated.
ReceiveSavesFirst(w) ==
    /\ req[w].pc = "idle"
    /\ (w = "w2" => req["w1"].pc # "idle")
    /\ started < MaxRequests
    /\ \E hasFile \in BOOLEAN, contentType \in ContentTypes :
          /\ (~hasFile => contentType = "")
          /\ LET r == [IdleReq EXCEPT !.hasFile = hasFile, !.contentType = contentType] IN
             /\ req' = [req EXCEPT ![w] =
                        IF ~hasFile THEN Fail(r, 400, "No file provided")
                        ELSE IF InvalidType(contentType)
                        THEN Fail(r, 400, "Invalid file type. Allowed: images (jpg, png, gif, webp) and PDF")
                        ELSE [r EXCEPT !.pc = "save",
                                       !.receiptID = started + 1,
                                       !.uniqueFilename = UniqueFilename(started + 1)]]
             /\ files' = IF hasFile
                         THEN (UniqueFilename(started + 1) :> started + 1) @@ files
                         ELSE files
    /\ started' = started + 1
    /\ UNCHANGED <<receipts, transactions, env, now, ocrReq>>

\* c.FormFile("file"), the validation of the content type, the new uuid and
\* the name of the stored file.
Receive(w) ==
    /\ req[w].pc = "idle"
    /\ (w = "w2" => req["w1"].pc # "idle")
    /\ started < MaxRequests
    /\ \E hasFile \in BOOLEAN, contentType \in ContentTypes :
          /\ (~hasFile => contentType = "")
          /\ LET r == [IdleReq EXCEPT !.hasFile = hasFile, !.contentType = contentType] IN
             req' = [req EXCEPT ![w] =
                        IF ~hasFile THEN Fail(r, 400, "No file provided")
                        ELSE IF InvalidType(contentType)
                        THEN Fail(r, 400, "Invalid file type. Allowed: images (jpg, png, gif, webp) and PDF")
                        ELSE [r EXCEPT !.pc = "save",
                                       !.receiptID = started + 1,
                                       !.uniqueFilename = UniqueFilename(started + 1)]]
    /\ started' = started + 1
    /\ UNCHANGED <<files, receipts, transactions, env, now, ocrReq>>

\* SaveFile with the error of c.SaveFile not looked at.
SaveFileContinues(w) ==
    /\ req[w].pc = "save"
    /\ \E out \in {"ok", "failed", "partial"} :
          LET r == Call(req[w], "SaveFile", out = "ok", <<>>) IN
          /\ req' = [req EXCEPT ![w] = [r EXCEPT !.pc = "stat"]]
          /\ files' = IF out = "ok" THEN (r.uniqueFilename :> r.receiptID) @@ files
                      ELSE IF out = "partial" THEN (r.uniqueFilename :> 0) @@ files
                      ELSE files
    /\ UNCHANGED <<receipts, transactions, started, env, now, ocrReq>>

\* c.SaveFile(file, savePath).  A failed save may leave a part of the file.
SaveFile(w) ==
    /\ req[w].pc = "save"
    /\ \E out \in {"ok", "failed", "partial"} :
          LET r == Call(req[w], "SaveFile", out = "ok", <<>>) IN
          /\ req' = [req EXCEPT ![w] =
                        IF out = "ok" THEN [r EXCEPT !.pc = "stat"]
                        ELSE Fail(r, 500, "Failed to save file")]
          /\ files' = IF out = "ok" THEN (r.uniqueFilename :> r.receiptID) @@ files
                      ELSE IF out = "partial" THEN (r.uniqueFilename :> 0) @@ files
                      ELSE files
    /\ UNCHANGED <<receipts, transactions, started, env, now, ocrReq>>

\* Stat with the OCR stage started before the receipt is registered.
StatThenOcr(w) ==
    /\ req[w].pc = "stat"
    /\ \E ok \in BOOLEAN :
          /\ (ok => req[w].uniqueFilename \in DOMAIN files)
          /\ LET r == Call(req[w], "Stat", ok, <<>>) IN
             req' = [req EXCEPT ![w] =
                        IF ok THEN [r EXCEPT !.pc = "ocr"]
                        ELSE Fail(r, 500, "Failed to get file info")]
    /\ UNCHANGED <<files, receipts, transactions, started, env, now, ocrReq>>

\* os.Stat(savePath)
Stat(w) ==
    /\ req[w].pc = "stat"
    /\ \E ok \in BOOLEAN :
          /\ (ok => req[w].uniqueFilename \in DOMAIN files)
          /\ LET r == Call(req[w], "Stat", ok, <<>>) IN
             req' = [req EXCEPT ![w] =
                        IF ok THEN [r EXCEPT !.pc = "insert"]
                        ELSE Fail(r, 500, "Failed to get file info")]
    /\ UNCHANGED <<files, receipts, transactions, started, env, now, ocrReq>>

\* The row the handler inserts into receipts.
ReceiptRow(uniqueFilename) ==
    [file_name |-> uniqueFilename, status |-> "needs_review", uploaded_at |-> now]

\* INSERT INTO receipts, then result.LastInsertId().
InsertReceipt(w) ==
    /\ req[w].pc = "insert"
    /\ \E out \in {"ok", "failed", "noid"} :
          LET r == Call(req[w], "InsertReceipt", out # "failed", <<>>)
              r2 == Call(r, "LastInsertId", out = "ok", <<>>)
          IN
          /\ req' = [req EXCEPT ![w] =
                        IF out = "failed" THEN Fail(r, 500, "Failed to save receipt to database")
                        ELSE IF out = "noid" THEN Fail(r2, 500, "Failed to get receipt ID")
                        ELSE [r2 EXCEPT !.pc = "ocr", !.receiptDBID = Len(receipts) + 1]]
          /\ receipts' = IF out = "failed" THEN receipts
                         ELSE Append(receipts, ReceiptRow(r.uniqueFilename))
    /\ UNCHANGED <<files, transactions, started, env, now, ocrReq>>

\* What can happen to the OCR of a stored file: the stage is skipped, or
\* os.ReadFile, SetImageFromBytes or Text fails, or Text returns the text.
OcrOutcomes(r) ==
    IF ~isImage(r.contentType) THEN {"skipped"}
    ELSE IF r.uniqueFilename \notin DOMAIN files THEN {"read"}
    ELSE {"read", "setimage", "text", "ok"}

\* The OCR stage.
Ocr(w) ==
    /\ req[w].pc = "ocr"
    /\ \E out \in OcrOutcomes(req[w]), text \in OcrTexts :
          /\ (out # "ok" => text = "")
          /\ LET r == req[w]
                 r1 == Call(r, "ReadFile", out # "read", <<>>)
                 r2 == Call(r1, "SetImageFromBytes", out # "setimage", <<>>)
                 r3 == Call(r2, "Text", out # "text", IF out = "ok" THEN <<text>> ELSE <<>>)
             IN
             req' = [req EXCEPT ![w] =
                 CASE out = "skipped" ->
                        [r EXCEPT !.pc = "gemini", !.ocrStatus = "skipped",
                                  !.ocrError = <<"PDF files require separate processing">>]
                   [] out = "read" ->
                        [r1 EXCEPT !.pc = "gemini", !.ocrStatus = "failed",
                                   !.ocrError = Sprintf("Failed to read file: %v", "err")]
                   [] out = "setimage" ->
                        [r2 EXCEPT !.pc = "gemini", !.ocrStatus = "failed",
                                   !.ocrError = Sprintf("Failed to set image: %v", "err")]
                   [] out = "text" ->
                        [r3 EXCEPT !.pc = "gemini", !.ocrStatus = "failed",
                                   !.ocrError = Sprintf("Failed to extract text: %v", "err")]
                   [] OTHER ->
                        [r3 EXCEPT !.pc = "gemini", !.ocrStatus = "success", !.ocrText = text]]
    /\ UNCHANGED <<files, receipts, transactions, started, env, now, ocrReq>>

\* NewGeminiClient: created says whether genai.NewClient succeeded.
NewGeminiClient(e, created) ==
    IF e.GEMINI_API_KEY = ""
    THEN [ok |-> FALSE, err |-> "GEMINI_API_KEY environment variable not set", model |-> ""]
    ELSE IF ~created
    THEN [ok |-> FALSE, err |-> "failed to create Gemini client: err", model |-> ""]
    ELSE [ok |-> TRUE, err |-> "",
          model |-> IF e.GEMINI_MODEL = "" THEN "gemini-1.5-flash" ELSE e.GEMINI_MODEL]

\* GenerateText without the test for an empty list of candidates.
GenerateTextUnchecked(out, text) ==
    CASE out = "error" ->
            [Text |-> <<>>, Success |-> FALSE,
             Error |-> Sprintf("Failed to generate content: %v", "err"), err |-> "err"]
      [] OTHER ->
            [Text |-> text, Success |-> TRUE, Error |-> <<>>, err |-> ""]

\* GeminiClient.GenerateText: GenerateContent fails, returns no candidate, or
\* returns the text of the first candidate.
GenerateText(out, text) ==
    CASE out = "error" ->
            [Text |-> <<>>, Success |-> FALSE,
             Error |-> Sprintf("Failed to generate content: %v", "err"), err |-> "err"]
      [] out = "nocandidates" ->
            [Text |-> <<>>, Success |-> FALSE,
             Error |-> <<"No response candidates returned">>, err |-> "no response candidates"]
      [] OTHER ->
            [Text |-> text, Success |-> TRUE, Error |-> <<>>, err |-> ""]

\* HasOcrText without the test of the text.
HasOcrStatus(r) == r.ocrStatus = "success"

\* Whether the handler runs the extraction stage.
HasOcrText(r) == r.ocrStatus = "success" /\ r.ocrText # ""

\* The handler's position after json.Unmarshal.
AfterParse(ok) == IF ok THEN "insertTx" ELSE "respond"

\* Parsed with a parse failure treated as a failure of the stage.
ParsedStrict(r, model, text, parsed) ==
    [r EXCEPT !.pc = IF parsed.ok THEN "insertTx" ELSE "respond",
              !.geminiStatus = IF parsed.ok THEN "success" ELSE "failed",
              !.geminiModel = model,
              !.geminiAnalysis = IF parsed.ok THEN text ELSE <<>>,
              !.geminiError = IF parsed.ok THEN <<>>
                              ELSE Sprintf("Failed to parse JSON: %v", "err"),
              !.parsedData = IF parsed.ok THEN <<parsed.data>> ELSE <<>>]

\* Gemini has answered: the answer is kept and parsed.
Parsed(r, model, text, parsed) ==
    [r EXCEPT !.pc = AfterParse(parsed.ok),
              !.geminiStatus = "success",
              !.geminiModel = model,
              !.geminiAnalysis = text,
              !.geminiError = IF parsed.ok THEN <<>>
                              ELSE Sprintf("Failed to parse JSON: %v", "err"),
              !.parsedData = IF parsed.ok THEN <<parsed.data>> ELSE <<>>]

\* The extraction stage up to the parsing of the answer.
Extract(r, e, out, text) ==
    LET c == NewGeminiClient(e, out # "client")
        r1 == Call(r, "NewGeminiClient", c.ok, <<>>)
        response == GenerateText(out, text)
        r2 == Call(r1, "AnalyzeReceiptTextWithPrompt", out = "ok",
                   IF response.err = "" THEN <<response.Text>> ELSE <<>>)
        parsed == Unmarshal(CleanResponse(response.Text))
    IN
    IF ~HasOcrText(r)
    THEN [r EXCEPT !.pc = "respond", !.geminiStatus = "skipped",
                   !.geminiError = <<"No OCR text available">>]
    ELSE IF ~c.ok
    THEN [r1 EXCEPT !.pc = "respond", !.geminiStatus = "failed",
                    !.geminiError = Sprintf("Failed to create client: %v", c.err)]
    ELSE IF response.err # ""
    THEN [r2 EXCEPT !.pc = "respond", !.geminiStatus = "failed", !.geminiModel = c.model,
                    !.geminiError = Sprintf("Failed to analyze: %v", response.err)]
    ELSE IF ~response.Success
    THEN [r2 EXCEPT !.pc = "respond", !.geminiStatus = "failed", !.geminiModel = c.model,
                    !.geminiError = response.Error]
    ELSE Parsed(r2, c.model, response.Text, parsed)

\* What can happen in the extraction stage.
GeminiOutcomes(r, e) ==
    IF ~HasOcrText(r) THEN {"skipped"}
    ELSE IF e.GEMINI_API_KEY = "" THEN {"client"}
    ELSE {"client", "error", "nocandidates", "ok"}

\* The extraction stage.
Gemini(w) ==
    /\ req[w].pc = "gemini"
    /\ \E out \in GeminiOutcomes(req[w], env), text \in GeminiTexts :
          /\ (out # "ok" => text = <<>>)
          /\ req' = [req EXCEPT ![w] = Extract(req[w], env, out, text)]
    /\ UNCHANGED <<files, receipts, transactions, started, env, now, ocrReq>>

\* AfterInsert with the handler left waiting after a failed INSERT.
AfterInsertBlocks(ok) == IF ok THEN "update" ELSE "waiting"

\* AfterInsert with a failed INSERT attempted again.
AfterInsertRetries(ok) == IF ok THEN "update" ELSE "insertTx"

\* AfterInsert with the status updated whatever the INSERT returned.
AfterInsertAlways(ok) == "update"

\* The handler's position after the INSERT INTO transactions.
AfterInsert(ok) == IF ok THEN "update" ELSE "respond"

\* InsertTransaction with the INSERT executed twice.
InsertTransactionTwice(w) ==
    /\ req[w].pc = "insertTx"
    /\ \E ok \in BOOLEAN :
          /\ req' = [req EXCEPT ![w] =
                        [Call(req[w], "InsertTransaction", ok, <<>>) EXCEPT !.pc = AfterInsert(ok)]]
          /\ transactions' =
                IF ok
                THEN transactions \o
                        << TransactionRow(req[w].receiptDBID, req[w].parsedData[1]),
                           TransactionRow(req[w].receiptDBID, req[w].parsedData[1]) >>
                ELSE transactions
    /\ UNCHANGED <<files, receipts, started, env, now, ocrReq>>

\* INSERT INTO transactions
InsertTransaction(w) ==
    /\ req[w].pc = "insertTx"
    /\ \E ok \in BOOLEAN :
          /\ req' = [req EXCEPT ![w] =
                        [Call(req[w], "InsertTransaction", ok, <<>>) EXCEPT !.pc = AfterInsert(ok)]]
          /\ transactions' =
                IF ok
                THEN Append(transactions,
                            TransactionRow(req[w].receiptDBID, req[w].parsedData[1]))
                ELSE transactions
    /\ UNCHANGED <<files, receipts, started, env, now, ocrReq>>

\* SetStatus without the WHERE clause.
SetStatusEverywhere(rows, id, status) ==
    [i \in DOMAIN rows |-> [rows[i] EXCEPT !.status = status]]

\* UPDATE receipts SET status = ? WHERE id = ?, on the table.
SetStatus(rows, id, status) ==
    [i \in DOMAIN rows |-> IF i = id THEN [rows[i] EXCEPT !.status = status] ELSE rows[i]]

\* The UPDATE of the receipt's status; its result is not looked at.
UpdateReceipt(w) ==
    /\ req[w].pc = "update"
    /\ \E ok \in BOOLEAN :
          /\ req' = [req EXCEPT ![w] =
                        [Call(req[w], "UpdateReceipt", ok, <<>>) EXCEPT !.pc = "respond"]]
          /\ receipts' = IF ok THEN SetStatus(receipts, req[w].receiptDBID, "processed")
                         ELSE receipts
    /\ UNCHANGED <<files, transactions, started, env, now, ocrReq>>

\* Created with the parsed fields given only when their transaction is stored.
CreatedIfStored(r) ==
    [success |-> TRUE,
     receipt_id |-> r.receiptDBID,
     uuid |-> r.receiptID,
     stored_name |-> r.uniqueFilename,
     content_type |-> r.contentType,
     upload_time |-> now,
     status |-> ResponseStatus(r),
     ocr |-> [status |-> r.ocrStatus, text |-> r.ocrText, error |-> r.ocrError],
     gemini |-> [status |-> r.geminiStatus, analysis |-> r.geminiAnalysis,
                 error |-> r.geminiError,
                 parsed |-> IF r.pc = "respond" /\ r.calls[Len(r.calls)].op = "UpdateReceipt"
                            THEN r.parsedData ELSE <<>>]]

\* The body of the 201 response.
Created(r) ==
    [success |-> TRUE,
     receipt_id |-> r.receiptDBID,
     uuid |-> r.receiptID,
     stored_name |-> r.uniqueFilename,
     content_type |-> r.contentType,
     upload_time |-> now,
     status |-> ResponseStatus(r),
     ocr |-> [status |-> r.ocrStatus, text |-> r.ocrText, error |-> r.ocrError],
     gemini |-> [status |-> r.geminiStatus, analysis |-> r.geminiAnalysis,
                 error |-> r.geminiError, parsed |-> r.parsedData]]

\* return c.Status(fiber.StatusCreated).JSON(...)
Respond(w) ==
    /\ req[w].pc = "respond"
    /\ req' = [req EXCEPT ![w] =
                  [req[w] EXCEPT !.pc = "done",
                                 !.response = [code |-> 201, error |-> "",
                                               body |-> <<Created(req[w])>>]]]
    /\ UNCHANGED <<files, receipts, transactions, started, env, now, ocrReq>>

\* Finish with the stored file removed when the handler returns, as the
\* handler of POST /ocr does with its upload.
FinishRemovesFile(w) ==
    /\ req[w].pc = "done"
    /\ req' = [req EXCEPT ![w] = IdleReq]
    /\ files' = [n \in DOMAIN files \ {req[w].uniqueFilename} |-> files[n]]
    /\ UNCHANGED <<receipts, transactions, started, env, now, ocrReq>>

\* The handler has returned; the goroutine takes the next request.
Finish(w) ==
    /\ req[w].pc = "done"
    /\ req' = [req EXCEPT ![w] = IdleReq]
    /\ UNCHANGED <<files, receipts, transactions, started, env, now, ocrReq>>

Next ==
    \E w \in Workers :
        \/ Receive(w)
        \/ SaveFile(w)
        \/ Stat(w)
        \/ InsertReceipt(w)
        \/ Ocr(w)
        \/ Gemini(w)
        \/ InsertTransaction(w)
        \/ UpdateReceipt(w)
        \/ Respond(w)
        \/ Finish(w)

Spec == Init /\ [][Next]_vars

\* A step of the handler of worker w after the request was received.  Every
\* external call returns, so the handler goes on whenever it has a next step.
Handle(w) ==
    \/ SaveFile(w)
    \/ Stat(w)
    \/ InsertReceipt(w)
    \/ Ocr(w)
    \/ Gemini(w)
    \/ InsertTransaction(w)
    \/ UpdateReceipt(w)
    \/ Respond(w)

\* Each goroutine takes one request and handles it to its response.
FairNext ==
    \E w \in Workers :
        \/ Receive(w)
        \/ SaveFile(w)
        \/ Stat(w)
        \/ InsertReceipt(w)
        \/ Ocr(w)
        \/ Gemini(w)
        \/ InsertTransaction(w)
        \/ UpdateReceipt(w)
        \/ Respond(w)

FairSpec == Init /\ [][FairNext]_vars /\ \A w \in Workers : WF_vars(Handle(w))

----------------------------------------------------------------------------
\* The parsing of the answer, on two requests that differ in the fencing of
\* the answer only.

\* Answers of Gemini: JSON documents, bare and with white space around them,
\* prose, the empty answer, and answers that hold a fence or the word json
\* themselves.
ResponseTexts ==
    { <<>>,
      <<"{A}">>, <<"{Z}">>, <<"{N}">>, <<"{S}">>, <<"{F}">>, <<"{D}">>, <<"{H}">>,
      <<" ", "{A}", "\n">>,
      <<"S", "o", "r", "r", "y">>,
      FenceJson \o <<"\n", "{A}", "\n">> \o Fence,
      <<"{A}">> \o Fence,
      Fence \o <<"{A}">>,
      <<"j", "s", "o", "n", "{A}">> }

\* An answer inside a code fence: the leading fence, tagged or not, and the
\* trailing fence, on lines of their own (sep a line break) or not.
Wrap(tag, sep, text) == tag \o sep \o text \o sep \o Fence

\* The handler of request k after a successful OCR of its image.
OcrDone(k) ==
    [IdleReq EXCEPT
        !.pc = "gemini",
        !.hasFile = TRUE,
        !.contentType = "image/jpeg",
        !.receiptID = k,
        !.uniqueFilename = UniqueFilename(k),
        !.receiptDBID = k,
        !.ocrStatus = "success",
        !.ocrText = "WALMART\n01/15/2024\n$45.67",
        !.calls = << [op |-> "SaveFile", ok |-> TRUE, ret |-> <<>>],
                     [op |-> "Stat", ok |-> TRUE, ret |-> <<>>],
                     [op |-> "InsertReceipt", ok |-> TRUE, ret |-> <<>>],
                     [op |-> "LastInsertId", ok |-> TRUE, ret |-> <<>>],
                     [op |-> "ReadFile", ok |-> TRUE, ret |-> <<>>],
                     [op |-> "SetImageFromBytes", ok |-> TRUE, ret |-> <<>>],
                     [op |-> "Text", ok |-> TRUE,
                      ret |-> <<"WALMART\n01/15/2024\n$45.67">>] >>]

\* Two requests have stored and registered their images and read their text.
ParseInit ==
    /\ now = 0
    /\ ocrReq = [w \in Workers |-> IdleOcr]
    /\ req = [w \in Workers |-> OcrDone(IF w = "w1" THEN 1 ELSE 2)]
    /\ files = (UniqueFilename(1) :> 1) @@ (UniqueFilename(2) :> 2)
    /\ receipts = <<ReceiptRow(UniqueFilename(1)), ReceiptRow(UniqueFilename(2))>>
    /\ transactions = <<>>
    /\ started = 2
    /\ env \in [GEMINI_API_KEY : {"key"}, GEMINI_MODEL : ModelNames]

\* The extraction stage of the first request: Gemini answers with a text.
AnswerPlain ==
    /\ req["w1"].pc = "gemini"
    /\ \E text \in ResponseTexts :
          req' = [req EXCEPT !["w1"] = Extract(@, env, "ok", text)]
    /\ UNCHANGED <<files, receipts, transactions, started, env, now, ocrReq>>

\* The extraction stage of the second request: Gemini answers with the text
\* it gave the first request, inside a code fence.
AnswerFenced ==
    /\ req["w1"].pc # "gemini"
    /\ req["w2"].pc = "gemini"
    /\ \E tag \in {Fence, FenceJson}, sep \in {<<>>, <<"\n">>} :
          req' = [req EXCEPT !["w2"] =
                     Extract(@, env, "ok", Wrap(tag, sep, req["w1"].geminiAnalysis))]
    /\ UNCHANGED <<files, receipts, transactions, started, env, now, ocrReq>>

ParseNext ==
    \/ AnswerPlain
    \/ AnswerFenced
    \/ \E w \in Workers :
          \/ InsertTransaction(w)
          \/ UpdateReceipt(w)
          \/ Respond(w)

SpecParse == ParseInit /\ [][ParseNext]_vars

----------------------------------------------------------------------------
\* The stages after registration, with time passing while they run.

\* A second passes.
Tick ==
    /\ now < MaxClock
    /\ now' = now + 1
    /\ UNCHANGED <<req, files, receipts, transactions, started, env, ocrReq>>

ClockNext ==
    \/ Tick
    \/ \E w \in Workers :
          \/ Gemini(w)
          \/ InsertTransaction(w)
          \/ UpdateReceipt(w)
          \/ Respond(w)

\* Two requests registered at second 0 go through extraction to their response.
SpecClock == ParseInit /\ [][ClockNext]_vars

----------------------------------------------------------------------------
\* POST /ocr, beside the stored files of two ingest requests

\* The names a client of POST /ocr gives its file: a name of its own, or the
\* stored name an ingest response reported.
OcrFilenames == {<<"scan.jpg">>, UniqueFilename(1)}

\* The content worker w uploads to POST /ocr, apart from the content of every
\* ingest request (contents are numbered, as in files).
Upload(w) == IF w = "w1" THEN 11 ELSE 12

\* return c.Status(code).JSON(fiber.Map{"error": ...}) of the /ocr handler.
OcrFail(o, code, msg) ==
    [o EXCEPT !.pc = "done", !.response = [code |-> code, error |-> msg, body |-> <<>>]]

\* os.Remove(path); a missing file is an error that is not looked at.
Remove(dir, path) == [n \in DOMAIN dir \ {path} |-> dir[n]]

\* c.FormFile("image")
OcrReceive(w) ==
    /\ ocrReq[w].pc = "idle"
    /\ \E hasFile \in BOOLEAN, filename \in OcrFilenames :
          ocrReq' = [ocrReq EXCEPT ![w] =
                        IF ~hasFile THEN OcrFail(IdleOcr, 400, "No image file provided")
                        ELSE [IdleOcr EXCEPT !.pc = "save", !.filename = filename,
                                             !.bytes = Upload(w)]]
    /\ UNCHANGED <<req, files, receipts, transactions, started, env, now>>

\* c.SaveFile(file, tempPath) with tempPath = ./uploads/<file.Filename>; a
\* file of that name is replaced.  From here on os.Remove(tempPath) is deferred.
OcrSaveFile(w) ==
    /\ ocrReq[w].pc = "save"
    /\ \E ok \in BOOLEAN :
          /\ ocrReq' = [ocrReq EXCEPT ![w] =
                            IF ok THEN [@ EXCEPT !.pc = "setimage"]
                            ELSE OcrFail(@, 500, "Failed to save file")]
          /\ files' = IF ok THEN (ocrReq[w].filename :> ocrReq[w].bytes) @@ files
                      ELSE files
    /\ UNCHANGED <<req, receipts, transactions, started, env, now>>

\* client.SetImage(tempPath): the OCR engine loads the file that is at
\* tempPath now.  On an error the handler returns and the deferred
\* os.Remove(tempPath) runs.
OcrSetImage(w) ==
    /\ ocrReq[w].pc = "setimage"
    /\ \E ok \in BOOLEAN :
          /\ (ok => ocrReq[w].filename \in DOMAIN files)
          /\ ocrReq' = [ocrReq EXCEPT ![w] =
                            IF ok THEN [@ EXCEPT !.pc = "text", !.read = <<files[ocrReq[w].filename]>>]
                            ELSE OcrFail(@, 500, "Failed to set image")]
          /\ files' = IF ok THEN files ELSE Remove(files, ocrReq[w].filename)
    /\ UNCHANGED <<req, receipts, transactions, started, env, now>>

\* client.Text(), the response, and the deferred os.Remove(tempPath).
OcrText(w) ==
    /\ ocrReq[w].pc = "text"
    /\ \E ok \in BOOLEAN :
          ocrReq' = [ocrReq EXCEPT ![w] =
                        IF ok
                        THEN [@ EXCEPT !.pc = "done",
                                       !.response =
                                           [code |-> 200, error |-> "",
                                            body |-> <<[success |-> TRUE,
                                                        filename |-> ocrReq[w].filename,
                                                        text |-> <<"text of", ocrReq[w].read>>]>>]]
                        ELSE OcrFail(@, 500, "OCR failed")]
    /\ files' = Remove(files, ocrReq[w].filename)
    /\ UNCHANGED <<req, receipts, transactions, started, env, now>>

\* The /ocr handler has returned; the goroutine takes the next request.
OcrFinish(w) ==
    /\ ocrReq[w].pc = "done"
    /\ ocrReq' = [ocrReq EXCEPT ![w] = IdleOcr]
    /\ UNCHANGED <<req, files, receipts, transactions, started, env, now>>

OcrNext ==
    \E w \in Workers :
        \/ OcrReceive(w)
        \/ OcrSaveFile(w)
        \/ OcrSetImage(w)
        \/ OcrText(w)
        \/ OcrFinish(w)

\* Requests to POST /ocr while the files of two ingest requests are stored.
SpecOcr == ParseInit /\ [][OcrNext]_vars

----------------------------------------------------------------------------
\* Properties of the pipeline

\* The calls of a request, by name.
Called(r, op) == \E i \in DOMAIN r.calls : r.calls[i].op = op

Succeeded(r, op) == \E i \in DOMAIN r.calls : r.calls[i].op = op /\ r.calls[i].ok

Failed(r, op) == \E i \in DOMAIN r.calls : r.calls[i].op = op /\ ~r.calls[i].ok

HasTransaction(id) == \E t \in DOMAIN transactions : transactions[t].receipt_id = id

\* The rows of receipts that hold the stored file name of request r.
RowsOf(r) == {i \in DOMAIN receipts : receipts[i].file_name = r.uniqueFilename}

\* The request that inserted row i is still being handled.
InFlight(i) ==
    \E w \in Workers :
        /\ req[w].pc \notin {"idle", "done"}
        /\ req[w].uniqueFilename = receipts[i].file_name

\* The handler is past the OCR stage, respectively past the extraction stage.
PastOcr(r) ==
    \/ r.pc \in {"gemini", "insertTx", "update", "respond"}
    \/ r.pc = "done" /\ r.response.code = 201

PastExtraction(r) ==
    \/ r.pc \in {"insertTx", "update", "respond"}
    \/ r.pc = "done" /\ r.response.code = 201

ImageTypes == {"image/jpeg", "image/jpg", "image/png", "image/gif", "image/webp"}

\* C1: once the request that registered a receipt has completed, the receipt
\* has a transaction if and only if its state is processed.
C1_TransactionIffProcessed ==
    \A i \in DOMAIN receipts :
        ~InFlight(i) => (HasTransaction(i) <=> receipts[i].status = "processed")

\* C2: the status field of the 201 response is the state of the receipt as it
\* stands when the extraction stage has ended.
C2_ResponseStatusIsReceiptState ==
    \A w \in Workers :
        req[w].pc = "done" /\ req[w].response.code = 201
            => req[w].response.body[1].status = receipts[req[w].receiptDBID].status

\* C3: a request gets to the storage of its file only with a content type of
\* the allow-list, and a file of any other content type, the absent one
\* included, is answered 400.
C3_OnlyAllowedTypesStored ==
    \A w \in Workers :
        /\ req[w].uniqueFilename # <<>> => req[w].contentType \in allowedTypes
        /\ req[w].pc = "done" /\ req[w].hasFile /\ req[w].contentType \notin allowedTypes
              => req[w].response.code = 400

\* C4: the step that answers a validation error (400) writes no file, inserts
\* no row and belongs to a request that has made no external call.
C4_ValidationErrorHasNoEffect ==
    [][\A w \in Workers :
          req[w].pc # "done" /\ req'[w].pc = "done" /\ req'[w].response.code = 400
              => /\ files' = files
                 /\ receipts' = receipts
                 /\ transactions' = transactions
                 /\ req'[w].calls = <<>>
                 /\ req'[w].uniqueFilename \notin DOMAIN files']_vars

\* A wrong content type and a missing file have each been answered 400.
C4_Witness ==
    \E w \in Workers :
        /\ req[w].pc = "done"
        /\ req[w].response.code = 400
        /\ req[w].contentType = "text/plain"
        /\ \E v \in Workers : req[v].pc = "done" /\ req[v].response.code = 400 /\ ~req[v].hasFile

\* C5: a completed request whose file is stored and whose receipt row is
\* inserted was answered 201.
C5_SuccessOnceRegistered ==
    \A w \in Workers :
        /\ req[w].pc = "done"
        /\ req[w].uniqueFilename \in DOMAIN files
        /\ RowsOf(req[w]) # {}
        => req[w].response.code = 201

\* The position of the first call of op in the log of r (0: none).
FirstCall(r, op) ==
    IF Called(r, op)
    THEN CHOOSE i \in DOMAIN r.calls :
            r.calls[i].op = op /\ \A j \in 1..(i - 1) : r.calls[j].op # op
    ELSE 0

\* C6: the status update is issued only after the INSERT of the transaction
\* has succeeded, a receipt is processed only with its transaction inserted,
\* and after a failed INSERT no update is issued, the receipt stays
\* needs_review without a transaction and the request is answered 201.
C6_TransactionBeforeProcessed ==
    /\ \A i \in DOMAIN receipts : receipts[i].status = "processed" => HasTransaction(i)
    /\ \A w \in Workers :
          LET r == req[w] IN
          /\ Called(r, "UpdateReceipt")
                => /\ Succeeded(r, "InsertTransaction")
                   /\ FirstCall(r, "InsertTransaction") < FirstCall(r, "UpdateReceipt")
                   /\ HasTransaction(r.receiptDBID)
          /\ Failed(r, "InsertTransaction")
                => /\ ~Called(r, "UpdateReceipt")
                   /\ receipts[r.receiptDBID].status = "needs_review"
                   /\ ~HasTransaction(r.receiptDBID)
                   /\ r.pc \in {"respond", "done"}
                   /\ (r.pc = "done" => r.response.code = 201)

\* One request was answered 201 after a failed INSERT, another has updated
\* its receipt to processed.
C6_Witness ==
    \E w, v \in Workers :
        /\ req[w].pc = "done"
        /\ Failed(req[w], "InsertTransaction")
        /\ req[w].response.code = 201
        /\ req[v].pc = "done"
        /\ Succeeded(req[v], "UpdateReceipt")
        /\ receipts[req[v].receiptDBID].status = "processed"

\* Gemini answered request r and the answer did not parse.
ParseFailed(r) ==
    /\ r.pc = "done"
    /\ r.response.code = 201
    /\ Succeeded(r, "AnalyzeReceiptTextWithPrompt")
    /\ r.parsedData = <<>>

\* The text Gemini returned to request r.
Answer(r) == r.calls[FirstCall(r, "AnalyzeReceiptTextWithPrompt")].ret[1]

\* C7, as stated: when the answer of Gemini does not parse, the stage is
\* reported success with a non-empty analysis text and a parse error, no
\* transaction is created and the receipt stays needs_review.
C7_ParseFailureNonEmptyAnalysis ==
    \A w \in Workers :
        LET r == req[w] IN
        ParseFailed(r)
            => /\ r.response.body[1].gemini.status = "success"
               /\ r.response.body[1].gemini.analysis # <<>>
               /\ r.response.body[1].gemini.error # <<>>
               /\ r.response.body[1].gemini.parsed = <<>>
               /\ ~HasTransaction(r.receiptDBID)
               /\ receipts[r.receiptDBID].status = "needs_review"

\* C7, amended: when the answer of Gemini does not parse, the stage is reported
\* success with the answer returned as it came (empty only when the answer is
\* empty) and a parse error, no transaction is created and the receipt stays
\* needs_review.
C7_ParseFailureReported ==
    \A w \in Workers :
        LET r == req[w] IN
        ParseFailed(r)
            => /\ r.response.body[1].gemini.status = "success"
               /\ r.response.body[1].gemini.analysis = Answer(r)
               /\ r.response.body[1].gemini.error # <<>>
               /\ r.response.body[1].gemini.parsed = <<>>
               /\ ~Called(r, "InsertTransaction")
               /\ ~HasTransaction(r.receiptDBID)
               /\ receipts[r.receiptDBID].status = "needs_review"

\* A 201 response carries an answer that is no JSON document.
C7_Witness ==
    \E w \in Workers :
        /\ ParseFailed(req[w])
        /\ req[w].response.body[1].gemini.analysis = <<"S", "o", "r", "r", "y">>

\* The extraction stage of request r was entered: its client was asked for.
ExtractionInvoked(r) == Called(r, "NewGeminiClient")

\* C8: extraction is invoked if and only if OCR succeeded with a non-empty
\* text; otherwise the stage is reported skipped, "No OCR text available",
\* and no transaction is created.
C8_ExtractionOnlyWithOcrText ==
    \A w \in Workers :
        LET r == req[w] IN
        /\ ExtractionInvoked(r) \/ Called(r, "AnalyzeReceiptTextWithPrompt")
              => r.ocrStatus = "success" /\ r.ocrText # ""
        /\ PastExtraction(r)
              => /\ ExtractionInvoked(r) <=> (r.ocrStatus = "success" /\ r.ocrText # "")
                 /\ ~ExtractionInvoked(r)
                       => /\ r.geminiStatus = "skipped"
                          /\ r.geminiError = <<"No OCR text available">>
                          /\ r.ocrStatus \in {"skipped", "failed", "success"}
                          /\ ~Called(r, "AnalyzeReceiptTextWithPrompt")
                          /\ ~Called(r, "InsertTransaction")
                          /\ ~HasTransaction(r.receiptDBID)

\* OCR succeeded with an empty text and extraction was skipped, while another
\* request had its text analyzed.
C8_Witness ==
    \E w, v \in Workers :
        /\ req[w].pc = "done"
        /\ req[w].response.code = 201
        /\ req[w].ocrStatus = "success"
        /\ req[w].ocrText = ""
        /\ req[w].response.body[1].gemini.status = "skipped"
        /\ req[v].pc = "done"
        /\ Succeeded(req[v], "AnalyzeReceiptTextWithPrompt")

OcrCalls == {"ReadFile", "SetImageFromBytes", "Text"}

\* C9: past the OCR stage, a PDF has OCR status skipped and no OCR call made;
\* an image whose read or OCR failed has status failed with the failure as a
\* string, and the request goes on to its 201 response.
C9_PdfSkippedImageFailed ==
    \A w \in Workers :
        LET r == req[w] IN
        /\ PastOcr(r) /\ r.contentType = "application/pdf"
              => /\ r.ocrStatus = "skipped"
                 /\ \A op \in OcrCalls : ~Called(r, op)
        /\ r.contentType \in ImageTypes /\ (\E op \in OcrCalls : Failed(r, op))
              => /\ r.ocrStatus = "failed"
                 /\ r.ocrError # <<>>
                 /\ r.ocrText = ""
                 /\ r.pc \in {"gemini", "respond", "done"}
                 /\ r.pc = "done"
                       => /\ r.response.code = 201
                          /\ r.response.body[1].ocr.status = "failed"
                          /\ r.response.body[1].ocr.error # <<>>

\* A PDF was answered with OCR skipped, an image with OCR failed.
C9_Witness ==
    \E w, v \in Workers :
        /\ req[w].pc = "done"
        /\ req[w].response.code = 201
        /\ req[w].contentType = "application/pdf"
        /\ req[w].response.body[1].ocr.status = "skipped"
        /\ req[v].pc = "done"
        /\ req[v].response.code = 201
        /\ req[v].contentType = "image/jpeg"
        /\ Failed(req[v], "SetImageFromBytes")

\* C10: past the OCR stage, every upload whose content type is not
\* application/pdf had OCR attempted and has OCR status success or failed.
C10_SkippedOnlyForPdf ==
    \A w \in Workers :
        LET r == req[w] IN
        PastOcr(r) /\ r.contentType # "application/pdf"
            => /\ r.ocrStatus \in {"success", "failed"}
               /\ Called(r, "ReadFile")

\* The extraction capability failed for request r: no client, an error of
\* the call, or no candidate.
CapabilityFailed(r) ==
    Failed(r, "NewGeminiClient") \/ Failed(r, "AnalyzeReceiptTextWithPrompt")

\* C11: a failure of the extraction capability gives stage status failed with
\* a non-empty error, no transaction, a receipt left needs_review and a 201
\* response.
C11_CapabilityFailureReported ==
    \A w \in Workers :
        LET r == req[w] IN
        CapabilityFailed(r)
            => /\ r.geminiStatus = "failed"
               /\ r.geminiError # <<>>
               /\ r.parsedData = <<>>
               /\ ~Called(r, "InsertTransaction")
               /\ ~Called(r, "UpdateReceipt")
               /\ ~HasTransaction(r.receiptDBID)
               /\ receipts[r.receiptDBID].status = "needs_review"
               /\ r.pc \in {"respond", "done"}
               /\ r.pc = "done"
                     => /\ r.response.code = 201
                        /\ r.response.body[1].gemini.status = "failed"
                        /\ r.response.body[1].gemini.error # <<>>

\* One request was answered after its client could not be created, another
\* after Gemini returned no candidate.
C11_Witness ==
    \E w, v \in Workers :
        /\ req[w].pc = "done"
        /\ Failed(req[w], "NewGeminiClient")
        /\ req[w].response.code = 201
        /\ req[v].pc = "done"
        /\ req[v].response.code = 201
        /\ req[v].response.body[1].gemini.error
              = Sprintf("Failed to analyze: %v", "no response candidates")

\* The calls of the stages that follow the registration of the receipt.
LaterCalls ==
    OcrCalls \cup {"NewGeminiClient", "AnalyzeReceiptTextWithPrompt",
                   "InsertTransaction", "UpdateReceipt"}

\* C14: a failed file save or a failed receipt insert ends the request with
\* an error response and none of the later steps; after a failed save no
\* receipt row holds the file name of the request.
C14_PersistFailureIsFatal ==
    \A w \in Workers :
        LET r == req[w] IN
        /\ (Failed(r, "SaveFile") \/ Failed(r, "InsertReceipt"))
              => /\ r.pc = "done"
                 /\ r.response.code = 500
                 /\ r.response.error # ""
                 /\ \A op \in LaterCalls : ~Called(r, op)
                 /\ r.ocrStatus = "" /\ r.geminiStatus = ""
        /\ Failed(r, "SaveFile")
              => /\ ~Called(r, "InsertReceipt")
                 /\ RowsOf(r) = {}

\* One request ended on a failed save that left a part of the file, another
\* on a failed receipt insert.
C14_Witness ==
    \E w, v \in Workers :
        /\ Failed(req[w], "SaveFile")
        /\ req[w].uniqueFilename \in DOMAIN files
        /\ Failed(req[v], "InsertReceipt")
        /\ req[v].pc = "done"

\* The place of a call in the order storage, registration, OCR, extraction,
\* persistence.
StepRank(op) ==
    CASE op = "SaveFile" -> 1
      [] op = "Stat" -> 2
      [] op = "InsertReceipt" -> 3
      [] op = "LastInsertId" -> 4
      [] op = "ReadFile" -> 5
      [] op = "SetImageFromBytes" -> 6
      [] op = "Text" -> 7
      [] op = "NewGeminiClient" -> 8
      [] op = "AnalyzeReceiptTextWithPrompt" -> 9
      [] op = "InsertTransaction" -> 10
      [] op = "UpdateReceipt" -> 11

\* The file of request r is stored whole and its receipt row is registered.
StoredAndRegistered(r) ==
    /\ Succeeded(r, "SaveFile")
    /\ Succeeded(r, "InsertReceipt")
    /\ r.uniqueFilename \in DOMAIN files
    /\ files[r.uniqueFilename] = r.receiptID
    /\ r.receiptDBID \in DOMAIN receipts
    /\ receipts[r.receiptDBID].file_name = r.uniqueFilename

\* C15: the calls of a request are made in the order storage, registration,
\* OCR, extraction, persistence, and the response comes last; from the OCR
\* stage on the file is stored and the receipt row exists, and it is in state
\* needs_review when the OCR stage starts, whatever the content type.
C15_StagesInOrder ==
    \A w \in Workers :
        LET r == req[w] IN
        /\ \A i \in 1..(Len(r.calls) - 1) :
              StepRank(r.calls[i].op) < StepRank(r.calls[i + 1].op)
        /\ (r.pc \in {"ocr", "gemini", "insertTx", "update", "respond"}
               \/ \E op \in LaterCalls : Called(r, op))
              => StoredAndRegistered(r)
        /\ r.pc = "ocr"
              => /\ receipts[r.receiptDBID].status = "needs_review"
                 /\ r.ocrStatus = "" /\ r.geminiStatus = ""
        /\ r.pc = "gemini" => r.ocrStatus # "" /\ r.geminiStatus = ""
        /\ r.pc \in {"insertTx", "update"} => r.geminiStatus = "success"
        /\ r.response.code = 201
              => r.pc = "done" /\ r.ocrStatus # "" /\ r.geminiStatus # ""

\* One request has made every call of the pipeline, and a PDF, whose OCR is
\* never attempted, is past the OCR stage with its file and receipt row.
C15_Witness ==
    \E w, v \in Workers :
        /\ Len(req[w].calls) = 11
        /\ req[w].pc = "done"
        /\ req[v].contentType = "application/pdf"
        /\ req[v].pc = "gemini"
        /\ StoredAndRegistered(req[v])

\* C17: a request makes each of its external calls at most once, failed
\* calls included.
C17_EachCallAtMostOnce ==
    \A w \in Workers :
        Cardinality({req[w].calls[i].op : i \in DOMAIN req[w].calls}) = Len(req[w].calls)

\* A request was answered after its INSERT INTO transactions failed, with
\* one attempt made.
C17_Witness ==
    \E w \in Workers :
        /\ req[w].pc = "done"
        /\ Failed(req[w], "InsertTransaction")
        /\ Len(req[w].calls) = 10

\* Request r is past the registration of its receipt.
Registered(r) == Succeeded(r, "LastInsertId")

\* A stage after the registration has failed for request r.
LaterStageFailed(r) ==
    \/ \E op \in OcrCalls : Failed(r, op)
    \/ CapabilityFailed(r)
    \/ ParseFailed(r)
    \/ Failed(r, "InsertTransaction")

\* C18: no step removes or changes the stored file of a registered request,
\* and none removes its receipt row, changes the row's file name or takes the
\* row back from processed, whatever failed after the registration.
C18_UpstreamEffectsKept ==
    [][\A w \in Workers :
          LET r == req[w] IN
          Registered(r)
              => /\ r.uniqueFilename \in DOMAIN files'
                 /\ files'[r.uniqueFilename] = r.receiptID
                 /\ r.receiptDBID \in DOMAIN receipts'
                 /\ receipts'[r.receiptDBID].file_name = r.uniqueFilename
                 /\ receipts[r.receiptDBID].status = "processed"
                       => receipts'[r.receiptDBID].status = "processed"]_vars

\* Two requests were answered, one after a failed OCR call and one after a
\* failed INSERT INTO transactions; the files and the receipt rows of both
\* are in place.
C18_Witness ==
    \E w, v \in Workers :
        /\ req[w].pc = "done" /\ req[v].pc = "done"
        /\ \E op \in OcrCalls : Failed(req[w], op)
        /\ Failed(req[v], "InsertTransaction")
        /\ LaterStageFailed(req[w]) /\ LaterStageFailed(req[v])
        /\ StoredAndRegistered(req[w]) /\ StoredAndRegistered(req[v])

\* Worker w makes the step that updates receipt i: the request that
\* registered the row, after its extraction succeeded and its transaction was
\* inserted.
UpdatesOwnReceipt(w, i) ==
    /\ req[w].pc = "update"
    /\ req'[w].pc = "respond"
    /\ req[w].receiptDBID = i
    /\ req[w].uniqueFilename = receipts[i].file_name
    /\ req[w].geminiStatus = "success"
    /\ req[w].parsedData # <<>>
    /\ Succeeded(req[w], "InsertTransaction")

\* C20: a step keeps every receipt row; a row enters the table in state
\* needs_review, and its state changes only from needs_review to processed,
\* by the step of the request that registered it, after that request's
\* extraction succeeded.
C20_ReceiptLifecycle ==
    [][/\ Len(receipts') >= Len(receipts)
       /\ \A i \in DOMAIN receipts' :
             IF i \in DOMAIN receipts
             THEN /\ receipts'[i].file_name = receipts[i].file_name
                  /\ receipts'[i].status # receipts[i].status
                        => /\ receipts[i].status = "needs_review"
                           /\ receipts'[i].status = "processed"
                           /\ \E w \in Workers : UpdatesOwnReceipt(w, i)
             ELSE receipts'[i].status = "needs_review"]_vars

\* One receipt has been processed while the other, whose request was
\* answered too, is still in needs_review.
C20_Witness ==
    \E w, v \in Workers :
        /\ req[w].pc = "done" /\ req[v].pc = "done"
        /\ Succeeded(req[w], "UpdateReceipt")
        /\ receipts[req[w].receiptDBID].status = "processed"
        /\ req[v].response.code = 201
        /\ receipts[req[v].receiptDBID].status = "needs_review"

\* The requests being handled hold different uuids, file names and receipt
\* ids, and each one's receipt id is the row with its own file name.
OwnIdentifiers ==
    \A w \in Workers :
        /\ Registered(req[w])
              => /\ req[w].receiptDBID \in DOMAIN receipts
                 /\ receipts[req[w].receiptDBID].file_name = req[w].uniqueFilename
                 /\ req[w].uniqueFilename = UniqueFilename(req[w].receiptID)
        /\ \A v \in Workers \ {w} :
              /\ req[w].receiptID # 0 => req[w].receiptID # req[v].receiptID
              /\ req[w].receiptDBID # 0 => req[w].receiptDBID # req[v].receiptDBID

\* A step of worker w leaves the local state of the other requests alone,
\* inserts at most a transaction for the receipt of w and updates at most
\* the receipt of w.
OwnEffects(w) ==
    /\ \A v \in Workers \ {w} : req'[v] = req[v]
    /\ Len(transactions') > Len(transactions)
          => /\ transactions' = Append(transactions, transactions'[Len(transactions')])
             /\ transactions'[Len(transactions')].receipt_id = req[w].receiptDBID
             /\ receipts[req[w].receiptDBID].file_name = req[w].uniqueFilename
    /\ \A i \in DOMAIN receipts :
          receipts'[i] # receipts[i] => i = req[w].receiptDBID
    /\ Len(receipts') > Len(receipts)
          => /\ receipts' = Append(receipts, ReceiptRow(req[w].uniqueFilename))
             /\ req'[w].receiptDBID \in {0, Len(receipts')}

\* C16: under every interleaving of the requests, a request's transaction
\* row references the receipt row that request inserted, its status update
\* changes that row only, and no step touches the receipt id, the stage
\* reports or the file name of another request.
C16_RequestsAreIsolated ==
    []OwnIdentifiers /\ [][\E w \in Workers : OwnEffects(w)]_vars

\* Two requests were handled at the same time and both were processed, the
\* one that registered its receipt first inserting its transaction last.
C16_Witness ==
    /\ Len(transactions) = 2
    /\ transactions[1].receipt_id = 2
    /\ transactions[2].receipt_id = 1
    /\ \A w \in Workers :
          /\ req[w].pc \in {"respond", "done"}
          /\ Succeeded(req[w], "UpdateReceipt")
          /\ receipts[req[w].receiptDBID].status = "processed"

\* C19: a client created with GEMINI_MODEL unset uses gemini-2.0-flash-exp,
\* and one created with GEMINI_MODEL set uses the configured value.
C19_DocumentedDefaultModel ==
    \A w \in Workers :
        Succeeded(req[w], "NewGeminiClient")
            => req[w].geminiModel
                  = IF env.GEMINI_MODEL = "" THEN "gemini-2.0-flash-exp"
                    ELSE env.GEMINI_MODEL

\* Both requests have been answered and no call to the store has failed.
BothAnswered ==
    /\ \A w \in Workers : req[w].pc = "done"
    /\ \A w \in Workers : \A op \in {"InsertTransaction", "UpdateReceipt"} :
          ~Failed(req[w], op)

\* The transaction rows of receipt id, without the receipt id.
TxOf(id) ==
    { [transactions[t] EXCEPT !.receipt_id = 0] :
        t \in {u \in DOMAIN transactions : transactions[u].receipt_id = id} }

\* The two requests have the same parse result, the same transaction row and
\* the same receipt state.
SameParseResult ==
    /\ req["w1"].parsedData = req["w2"].parsedData
    /\ req["w1"].geminiStatus = req["w2"].geminiStatus
    /\ req["w1"].geminiError = req["w2"].geminiError
    /\ req["w1"].response.body[1].gemini.parsed = req["w2"].response.body[1].gemini.parsed
    /\ TxOf(req["w1"].receiptDBID) = TxOf(req["w2"].receiptDBID)
    /\ receipts[req["w1"].receiptDBID].status = receipts[req["w2"].receiptDBID].status

\* C12 as stated: whatever the answer, the request that got the answer inside
\* a code fence ends with the parse result, the transaction row and the
\* receipt state of the request that got it bare.
C12_FencedParsesAsUnfenced == BothAnswered => SameParseResult

\* The answer of the first request holds no fence of its own at its start or
\* its end, and does not start with the word json right behind an untagged
\* leading fence.
NoFenceOfItsOwn ==
    LET text == req["w1"].geminiAnalysis IN
    /\ ~HasPrefix(TrimSpace(text), Fence)
    /\ ~HasSuffix(TrimSpace(text), Fence)
    /\ ~(/\ req["w2"].geminiAnalysis = Wrap(Fence, <<>>, text)
         /\ HasPrefix(text, <<"j", "s", "o", "n">>))

\* C12, amended: for an answer that holds no fence of its own at its start or
\* end (and no leading json behind an untagged fence), the fenced answer gives
\* the parse result, the transaction row and the receipt state of the bare one.
C12_FencedParsesAsUnfencedText == BothAnswered /\ NoFenceOfItsOwn => SameParseResult

\* A document on lines of its own inside a fence tagged json was parsed and
\* processed as the bare document was.
C12_Witness ==
    /\ BothAnswered
    /\ req["w1"].geminiAnalysis = <<"{A}">>
    /\ req["w2"].geminiAnalysis = Wrap(FenceJson, <<"\n">>, <<"{A}">>)
    /\ req["w2"].parsedData = <<Decode("{A}")>>
    /\ Len(transactions) = 2
    /\ \A i \in DOMAIN receipts : receipts[i].status = "processed"

\* C13: the transaction of a parsed answer holds no amount when the returned
\* amount is at most zero and the returned amount when it is above zero, the
\* same for the confidence, and never a number that is zero or below.
C13_OnlyPositiveNumbersStored ==
    \A w \in Workers :
        Succeeded(req[w], "InsertTransaction")
            => \A t \in DOMAIN transactions :
                  transactions[t].receipt_id = req[w].receiptDBID
                      => LET data == req[w].parsedData[1]
                             row == transactions[t]
                         IN
                         /\ row.amount = IF data.Amount > 0 THEN <<data.Amount>> ELSE <<>>
                         /\ row.confidence
                               = IF data.Confidence > 0 THEN <<data.Confidence>> ELSE <<>>
                         /\ row.amount # <<>> => row.amount[1] > 0
                         /\ row.confidence # <<>> => row.confidence[1] > 0

\* The transaction rows of receipt id.
TransactionsOf(id) == {t \in DOMAIN transactions : transactions[t].receipt_id = id}

\* C21: whatever the interleaving of the requests, a receipt has at most one
\* transaction, and a step keeps the transaction rows there are as they are.
C21_OneTransactionNeverUpdated ==
    /\ [](\A i \in DOMAIN receipts : Cardinality(TransactionsOf(i)) <= 1)
    /\ [][/\ Len(transactions') >= Len(transactions)
          /\ \A t \in DOMAIN transactions : transactions'[t] = transactions[t]]_vars

\* Two concurrent requests have each inserted the transaction of their
\* receipt, and one of them has been answered.
C21_Witness ==
    /\ Len(receipts) = 2
    /\ \A i \in DOMAIN receipts : Cardinality(TransactionsOf(i)) = 1
    /\ \E w \in Workers : req[w].pc = "done" /\ Succeeded(req[w], "InsertTransaction")

\* The answer of Gemini to request r was returned and parses.
AnswerParses(r) ==
    /\ Succeeded(r, "AnalyzeReceiptTextWithPrompt")
    /\ Unmarshal(CleanResponse(Answer(r))).ok

\* C22: the 201 response carries the parsed fields exactly when the answer of
\* Gemini parsed, whatever the INSERT of the transaction returned, and then
\* they are the fields of the answer; any other response carries none.
C22_ParsedIffAnswerParsed ==
    \A w \in Workers :
        LET r == req[w] IN
        /\ r.response.code = 201
              => LET parsed == r.response.body[1].gemini.parsed IN
                 /\ parsed # <<>> <=> AnswerParses(r)
                 /\ parsed # <<>> => parsed[1] = Unmarshal(CleanResponse(Answer(r))).data
        /\ r.response.code # 201 => r.response.body = <<>>

\* A request was answered with the parsed fields after its INSERT INTO
\* transactions had failed.
C22_Witness ==
    \E w \in Workers :
        /\ req[w].response.code = 201
        /\ Failed(req[w], "InsertTransaction")
        /\ req[w].response.body[1].gemini.parsed = <<Decode("{A}")>>

\* C23: a confidence stored on a transaction lies between 0.0 and 1.0.
C23_ConfidenceInUnitRange ==
    \A t \in DOMAIN transactions :
        transactions[t].confidence # <<>>
            => /\ transactions[t].confidence[1] >= 0
               /\ transactions[t].confidence[1] <= 100000

\* C28: when the answer parses with a date that is empty or not of the form
\* YYYY-MM-DD, the handler still goes on to the INSERT, the inserted row has
\* no date, and the update that follows makes the receipt processed; a row
\* has a date only when the returned date parses, and then it is that date.
C28_UnparsedDateStoredAsNull ==
    \A w \in Workers :
        LET r == req[w] IN
        r.parsedData # <<>>
            => LET date == r.parsedData[1].Date IN
               /\ r.pc = "insertTx" \/ Called(r, "InsertTransaction")
               /\ Succeeded(r, "InsertTransaction")
                     => /\ Cardinality(TransactionsOf(r.receiptDBID)) = 1
                        /\ \A t \in TransactionsOf(r.receiptDBID) :
                              transactions[t].date
                                 = IF date \in ValidDates THEN <<date>> ELSE <<>>
                        /\ r.pc = "update" \/ Called(r, "UpdateReceipt")
               /\ Succeeded(r, "UpdateReceipt")
                     => receipts[r.receiptDBID].status = "processed"

\* Two requests whose answer held the date month first were both processed,
\* with transactions that have no date.
C28_Witness ==
    /\ \A w \in Workers : req[w].pc = "done" /\ Succeeded(req[w], "UpdateReceipt")
    /\ \A w \in Workers : req[w].parsedData[1].Date = "01/15/2024"
    /\ Len(transactions) = 2
    /\ \A t \in DOMAIN transactions : transactions[t].date = <<>>
    /\ \A i \in DOMAIN receipts : receipts[i].status = "processed"

StageStatuses == {"success", "failed", "skipped"}

\* The handler of request r has returned a response.
Responded(r) == r.pc = "done" /\ r.response.code \in {201, 400, 500}

\* C25: with every external call returning, a request that was received is
\* eventually answered; a response, once given, is the only one of the
\* request; and a 201 response carries the report of the OCR stage and of the
\* extraction stage, each with a status success, failed or skipped.
C25_EveryRequestAnswered ==
    /\ \A w \in Workers : (req[w].pc # "idle") ~> Responded(req[w])
    /\ [](\A w \in Workers :
             /\ req[w].response # NoResponse <=> req[w].pc = "done"
             /\ req[w].response.code = 201
                   => /\ req[w].response.body[1].ocr.status \in StageStatuses
                      /\ req[w].response.body[1].gemini.status \in StageStatuses)
    /\ [][\A w \in Workers :
             req[w].response # NoResponse
                 => req'[w].response = req[w].response \/ req'[w] = IdleReq]_vars

\* Both requests of a run were answered, one with 201 after a failed INSERT
\* INTO transactions and one with an error.
C25_Witness ==
    \E w, v \in Workers :
        /\ Responded(req[w]) /\ req[w].response.code = 201
        /\ Failed(req[w], "InsertTransaction")
        /\ Responded(req[v]) /\ req[v].response.code = 500

\* C24: the upload time of a 201 response is the upload time on the receipt
\* row of the request.
C24_ResponseTimeIsRecordedTime ==
    \A w \in Workers :
        req[w].response.code = 201
            => req[w].response.body[1].upload_time
                  = receipts[req[w].receiptDBID].uploaded_at

\* C26: the file an ingest request stored stays in storage with the bytes of
\* that request, whatever requests are made to POST /ocr.
C26_StoredFileKept ==
    \A w \in Workers :
        Succeeded(req[w], "SaveFile")
            => /\ req[w].uniqueFilename \in DOMAIN files
               /\ files[req[w].uniqueFilename] = req[w].receiptID

\* C27: the OCR of a request to POST /ocr reads the bytes that request
\* uploaded, and between its save and the end of its OCR its file is in
\* storage with those bytes.
C27_OcrReadsOwnUpload ==
    \A w \in Workers :
        LET o == ocrReq[w] IN
        /\ o.read # <<>> => o.read = <<o.bytes>>
        /\ o.pc \in {"setimage", "text"}
              => /\ o.filename \in DOMAIN files
                 /\ files[o.filename] = o.bytes

====
